---- MODULE Spec2Model ----
(***************************************************************************)
(* Tele-bot: a Telegram webhook stores channel posts in a Firestore        *)
(* collection; a worker endpoint fetches the unprocessed documents,        *)
(* classifies and fingerprints each one, and sends the relevant,           *)
(* not-yet-forwarded ones to a personal chat.  Source: src/main.go.        *)
(***************************************************************************)
EXTENDS Integers, Sequences, FiniteSets, TLC

(***************************************************************************)
(* Text.  A Go string is a sequence of one-character strings.              *)
(***************************************************************************)
UpperLetters ==
    <<"A", "B", "C", "D", "E", "F", "G", "H", "I", "J", "K", "L", "M", "N", "O", "P", "Q", "R", "S", "T", "U", "V", "W", "X", "Y", "Z">>

LowerLetters ==
    <<"a", "b", "c", "d", "e", "f", "g", "h", "i", "j", "k", "l", "m", "n", "o", "p", "q", "r", "s", "t", "u", "v", "w", "x", "y", "z">>

Digits ==
    {"0", "1", "2", "3", "4", "5", "6", "7", "8", "9"}

IsUpper(c) == \E i \in 1..26 : UpperLetters[i] = c

IsLetter(c) == \E i \in 1..26 : LowerLetters[i] = c \/ UpperLetters[i] = c

IsDigit(c) == c \in Digits

\* \s of Go's regexp: [\t\n\f\r ]
IsSpace(c) == c \in {" ", "\t", "\n", "\f", "\r"}

ToLowerChar(c) ==
    IF IsUpper(c) THEN LowerLetters[CHOOSE i \in 1..26 : UpperLetters[i] = c] ELSE c

\* strings.ToLower
ToLower(s) == [i \in 1..Len(s) |-> ToLowerChar(s[i])]

\* s[i:] starts with p
HasPrefixAt(s, i, p) ==
    /\ i + Len(p) - 1 <= Len(s)
    /\ \A j \in 1..Len(p) : s[i + j - 1] = p[j]

\* strings.Contains
Contains(s, p) == \E i \in 1..(Len(s) + 1) : HasPrefixAt(s, i, p)

MaxOf(S) == CHOOSE q \in S : \A r \in S : r <= q

(***************************************************************************)
(* The five regular expressions of normalizeText.  XEnd(s, i) is the index *)
(* just past the match of X that starts at i (leftmost-first, greedy), or  *)
(* 0 when X does not match at i.                                           *)
(***************************************************************************)
\* \S+ from i: index just past the run
RECURSIVE NonSpaceRunEnd(_, _)
NonSpaceRunEnd(s, i) ==
    IF i <= Len(s) /\ ~IsSpace(s[i]) THEN NonSpaceRunEnd(s, i + 1) ELSE i

\* urlRegex = https?://\S+
urlRegexEnd(s, i) ==
    LET a == IF HasPrefixAt(s, i, <<"h", "t", "t", "p", "s", ":", "/", "/">>) THEN i + 8
             ELSE IF HasPrefixAt(s, i, <<"h", "t", "t", "p", ":", "/", "/">>) THEN i + 7
             ELSE 0
    IN  IF a = 0 THEN 0
        ELSE IF NonSpaceRunEnd(s, a) > a THEN NonSpaceRunEnd(s, a) ELSE 0

IsEmailLocal(c) == IsLetter(c) \/ IsDigit(c) \/ c \in {".", "_", "%", "+", "-"}

IsEmailDomain(c) == IsLetter(c) \/ IsDigit(c) \/ c \in {".", "-"}

RECURSIVE EmailLocalRunEnd(_, _)
EmailLocalRunEnd(s, i) ==
    IF i <= Len(s) /\ IsEmailLocal(s[i]) THEN EmailLocalRunEnd(s, i + 1) ELSE i

RECURSIVE EmailDomainRunEnd(_, _)
EmailDomainRunEnd(s, i) ==
    IF i <= Len(s) /\ IsEmailDomain(s[i]) THEN EmailDomainRunEnd(s, i + 1) ELSE i

RECURSIVE LetterRunEnd(_, _)
LetterRunEnd(s, i) ==
    IF i <= Len(s) /\ IsLetter(s[i]) THEN LetterRunEnd(s, i + 1) ELSE i

\* emailRegex = [a-zA-Z0-9._%+\-]+@[a-zA-Z0-9.\-]+\.[a-zA-Z]{2,}
emailRegexEnd(s, i) ==
    LET r == EmailLocalRunEnd(s, i)
    IN  IF r = i \/ r > Len(s) \/ s[r] # "@" THEN 0
        ELSE LET d    == r + 1
                 m    == EmailDomainRunEnd(s, d)
                 dots == {q \in (d + 1)..(m - 1) :
                             /\ s[q] = "."
                             /\ q + 2 <= Len(s)
                             /\ IsLetter(s[q + 1])
                             /\ IsLetter(s[q + 2])}
             IN  IF dots = {} THEN 0 ELSE LetterRunEnd(s, MaxOf(dots) + 1)

IsPhoneBody(c) == IsDigit(c) \/ IsSpace(c) \/ c = "-"

RECURSIVE PhoneBodyRunEnd(_, _)
PhoneBodyRunEnd(s, i) ==
    IF i <= Len(s) /\ IsPhoneBody(s[i]) THEN PhoneBodyRunEnd(s, i + 1) ELSE i

\* phoneRegex = \+?\d[\d\s\-]{7,}\d
phoneRegexEnd(s, i) ==
    LET d0 == IF i <= Len(s) /\ s[i] = "+" THEN i + 1 ELSE i
    IN  IF d0 > Len(s) \/ ~IsDigit(s[d0]) THEN 0
        ELSE LET a     == d0 + 1
                 m     == PhoneBodyRunEnd(s, a)
                 lasts == {q \in (a + 7)..(m - 1) : IsDigit(s[q])}
             IN  IF lasts = {} THEN 0 ELSE MaxOf(lasts) + 1

\* urlRegex.ReplaceAllString(t, "")
RECURSIVE StripUrls(_, _)
StripUrls(s, i) ==
    IF i > Len(s) THEN <<>>
    ELSE IF urlRegexEnd(s, i) > 0 THEN StripUrls(s, urlRegexEnd(s, i))
    ELSE <<s[i]>> \o StripUrls(s, i + 1)

\* emailRegex.ReplaceAllString(t, "")
RECURSIVE StripEmails(_, _)
StripEmails(s, i) ==
    IF i > Len(s) THEN <<>>
    ELSE IF emailRegexEnd(s, i) > 0 THEN StripEmails(s, emailRegexEnd(s, i))
    ELSE <<s[i]>> \o StripEmails(s, i + 1)

\* phoneRegex.ReplaceAllString(t, "")
RECURSIVE StripPhones(_, _)
StripPhones(s, i) ==
    IF i > Len(s) THEN <<>>
    ELSE IF phoneRegexEnd(s, i) > 0 THEN StripPhones(s, phoneRegexEnd(s, i))
    ELSE <<s[i]>> \o StripPhones(s, i + 1)

\* nonTextRegex = [^a-z0-9\s], each match replaced by one space
nonTextRegexReplace(s) ==
    [i \in 1..Len(s) |->
        IF (IsLetter(s[i]) /\ ~IsUpper(s[i])) \/ IsDigit(s[i]) \/ IsSpace(s[i])
        THEN s[i] ELSE " "]

\* spaceRegex = \s+, each run replaced by one space
RECURSIVE spaceRegexReplace(_, _)
spaceRegexReplace(s, i) ==
    IF i > Len(s) THEN <<>>
    ELSE IF IsSpace(s[i])
         THEN IF i < Len(s) /\ IsSpace(s[i + 1])
              THEN spaceRegexReplace(s, i + 1)
              ELSE <<" ">> \o spaceRegexReplace(s, i + 1)
    ELSE <<s[i]>> \o spaceRegexReplace(s, i + 1)

\* strings.TrimSpace
RECURSIVE TrimSpace(_)
TrimSpace(s) ==
    IF s = <<>> THEN s
    ELSE IF IsSpace(s[1]) THEN TrimSpace(Tail(s))
    ELSE IF IsSpace(s[Len(s)]) THEN TrimSpace(SubSeq(s, 1, Len(s) - 1))
    ELSE s

normalizeText(text) ==
    LET t1 == ToLower(text)
        t2 == StripUrls(t1, 1)
        t3 == StripEmails(t2, 1)
        t4 == StripPhones(t3, 1)
        t5 == nonTextRegexReplace(t4)
        t6 == spaceRegexReplace(t5, 1)
    IN  TrimSpace(t6)

\* the prefix of the normalized text that is hashed
FingerprintPrefix == 400

\* sha256.Sum256 rendered in hex: an injective tag of the hashed bytes
Sha256Hex(bytes) == <<"sha256", bytes>>

computeFingerprint(messageText) ==
    LET normalized == normalizeText(messageText)
    IN  Sha256Hex(IF Len(normalized) > FingerprintPrefix
                  THEN SubSeq(normalized, 1, FingerprintPrefix)
                  ELSE normalized)

internshipKeywords ==
    << <<"i", "n", "t", "e", "r", "n">>,
       <<"i", "n", "t", "e", "r", "n", "s", "h", "i", "p">>,
       <<"t", "r", "a", "i", "n", "e", "e">>,
       <<"a", "p", "p", "r", "e", "n", "t", "i", "c", "e">> >>

studentKeywords ==
    << <<"f", "i", "n", "a", "l", " ", "y", "e", "a", "r">>,
       <<"f", "i", "n", "a", "l", "-", "y", "e", "a", "r">>,
       <<"s", "t", "u", "d", "e", "n", "t">>,
       <<"s", "t", "u", "d", "e", "n", "t", "s", " ", "o", "n", "l", "y">>,
       <<"c", "u", "r", "r", "e", "n", "t", "l", "y", " ", "p", "u", "r", "s", "u", "i", "n", "g">>,
       <<"p", "u", "r", "s", "u", "i", "n", "g", " ", "d", "e", "g", "r", "e", "e">>,
       <<"c", "a", "m", "p", "u", "s", " ", "h", "i", "r", "i", "n", "g">>,
       <<"o", "n", " ", "c", "a", "m", "p", "u", "s">>,
       <<"c", "o", "l", "l", "e", "g", "e", " ", "s", "t", "u", "d", "e", "n", "t">> >>

experienceRejectPatterns ==
    << <<"2", "+", " ", "y", "e", "a", "r">>,
       <<"3", "+", " ", "y", "e", "a", "r">>,
       <<"4", "+", " ", "y", "e", "a", "r">>,
       <<"m", "i", "n", "i", "m", "u", "m", " ", "2", " ", "y", "e", "a", "r">>,
       <<"m", "i", "n", "i", "m", "u", "m", " ", "3", " ", "y", "e", "a", "r">>,
       <<"2", " ", "y", "e", "a", "r", "s", " ", "e", "x", "p", "e", "r", "i", "e", "n", "c", "e">>,
       <<"3", " ", "y", "e", "a", "r", "s", " ", "e", "x", "p", "e", "r", "i", "e", "n", "c", "e">>,
       <<"e", "x", "p", "e", "r", "i", "e", "n", "c", "e", "d", " ", "c", "a", "n", "d", "i", "d", "a", "t", "e">>,
       <<"e", "x", "p", "e", "r", "i", "e", "n", "c", "e", "d", " ", "o", "n", "l", "y">> >>

explicitNon2025Patterns ==
    << <<"2", "0", "2", "4", " ", "b", "a", "t", "c", "h">>,
       <<"2", "0", "2", "3", " ", "b", "a", "t", "c", "h">>,
       <<"2", "0", "2", "2", " ", "b", "a", "t", "c", "h">>,
       <<"2", "0", "2", "1", " ", "b", "a", "t", "c", "h">>,
       <<"2", "0", "2", "2", "-", "2", "0", "2", "4">>,
       <<"2", "0", "2", "1", "-", "2", "0", "2", "3">> >>

containsAny(text, patterns) ==
    \E i \in 1..Len(patterns) : Contains(text, patterns[i])

excludes2025_RequiresYear(text) ==
    IF containsAny(text, explicitNon2025Patterns) THEN TRUE
    ELSE IF Contains(text, <<"2", "0", "2", "5">>) THEN FALSE
    ELSE TRUE

excludes2025(text) ==
    IF containsAny(text, explicitNon2025Patterns) THEN TRUE
    ELSE IF Contains(text, <<"2", "0", "2", "5">>) THEN FALSE
    ELSE FALSE

isRelevant(messageText) ==
    LET text == ToLower(messageText)
    IN  IF containsAny(text, internshipKeywords) THEN FALSE
        ELSE IF containsAny(text, studentKeywords) THEN FALSE
        ELSE IF containsAny(text, experienceRejectPatterns) THEN FALSE
        ELSE IF excludes2025(text) THEN FALSE
        ELSE TRUE

(***************************************************************************)
(* Inputs.                                                                 *)
(***************************************************************************)
\* Chat.ID and MessageID values of the incoming posts
ChatIDs == {1, 2}

MessageIDs == {7}

\* Chat.Title of a chat
ChatTitle(id) == IF id = 1 THEN "jobs-a" ELSE "jobs-b"

\* message texts: two that normalize to the same text, one that the
\* internship rule rejects
Texts ==
    { <<"J", "o", "b">>,
      <<"j", "o", "b", "!">>,
      <<"i", "n", "t", "e", "r", "n">> }

\* msg.Date values (epoch seconds)
Dates == {100}

\* values of time.Now()
Times == {1}

\* the decoded TelegramMessageRaw of an update that passes the handler's checks
Posts ==
    { [chat_id |-> c, title |-> ChatTitle(c), message_id |-> m, text |-> t, date |-> d] :
        c \in ChatIDs, m \in MessageIDs, t \in Texts, d \in Dates }

Workers == {"w1", "w2"}

\* the counter of delivered messages per fingerprint stops here
MaxSends == 2

\* the number of webhook updates that are stored in one run of the model
MaxIngest == 2

\* the limit workerHandler passes to fetchUnprocessed
BatchLimit == 50

\* the texts a document can hold: msg.Text is empty for a post that has only
\* a caption or media
StoredTexts == Texts \cup {<< >>}

\* computeFingerprint and isRelevant on the texts of the model, computed once
fingerprintOf == [t \in StoredTexts |-> computeFingerprint(t)]

relevantOf == [t \in StoredTexts |-> isRelevant(t)]

Fingerprints == {fingerprintOf[t] : t \in StoredTexts}

(***************************************************************************)
(* State.                                                                  *)
(***************************************************************************)
VARIABLES
    store,        \* the telegram_messages collection: document ID -> TelegramMessage
    pc,           \* per worker invocation: position in workerHandler / processOne
    batch,        \* per worker invocation: docs, the snapshots fetchUnprocessed returned
    idx,          \* per worker invocation: index in docs of the snapshot in processOne
    sendOk,       \* per worker invocation: whether the last sendTextMessage returned nil
    sent,         \* messages delivered to the personal chat, counted per fingerprint
    ingested,     \* number of webhook updates stored so far
    lastStored,   \* the post of the last webhook update that was stored
    clean,        \* no call inside processOne has failed so far, and no webhook
                  \* update was stored while a worker invocation was running
    http,         \* the request answered by the last step and the response written
    input,        \* the argument of a call of normalizeText or isRelevant
    result        \* the call made on input and what it returned

vars == <<store, pc, batch, idx, sendOk, sent, ingested, lastStored, clean, http, input, result>>

\* a nil pointer, and a pointer to v
Nil == <<>>

Ptr(v) == <<v>>

\* fmt.Sprintf("%d_%d", msg.Chat.ID, msg.MessageID)
DocID(chatID, messageID) == <<chatID, messageID>>

\* time.Unix(sec, 0)
TimeUnix(sec) == <<"unix", sec>>

\* the TelegramMessage built by telegramWebhookHandler
firestoreMsg(msg, now) ==
    [ channel_id        |-> msg.chat_id,
      channel_name      |-> msg.title,
      message_id        |-> msg.message_id,
      message_text      |-> msg.text,
      message_timestamp |-> TimeUnix(msg.date),
      received_at       |-> now,
      is_processed      |-> FALSE,
      is_relevant       |-> Nil,
      processed_at      |-> Nil,
      job_fingerprint   |-> Nil,
      is_forwarded      |-> FALSE ]

\* storeMessage as a merge: the processing and forward state of an existing
\* document survives the write
storeMessage_Merge(st, docID, msg) ==
    [id \in DOMAIN st \cup {docID} |->
        IF id # docID THEN st[id]
        ELSE IF docID \in DOMAIN st
             THEN [msg EXCEPT !.is_processed    = st[docID].is_processed,
                              !.is_relevant     = st[docID].is_relevant,
                              !.processed_at    = st[docID].processed_at,
                              !.job_fingerprint = st[docID].job_fingerprint,
                              !.is_forwarded    = st[docID].is_forwarded]
             ELSE msg]

\* Doc(docID).Set(ctx, msg): create or replace the whole document
storeMessage(st, docID, msg) ==
    [id \in DOMAIN st \cup {docID} |-> IF id = docID THEN msg ELSE st[id]]

\* updateProcessingResult without the job_fingerprint update
updateProcessingResult_NoFingerprint(st, docID, relevant, fingerprint, now) ==
    [st EXCEPT ![docID] =
        [@ EXCEPT !.is_processed = TRUE,
                  !.is_relevant  = Ptr(relevant),
                  !.processed_at = Ptr(now)]]

\* Doc(docID).Update(ctx, updates) with the four processing fields
updateProcessingResult(st, docID, relevant, fingerprint, now) ==
    [st EXCEPT ![docID] =
        [@ EXCEPT !.is_processed    = TRUE,
                  !.is_relevant     = Ptr(relevant),
                  !.processed_at    = Ptr(now),
                  !.job_fingerprint = Ptr(fingerprint)]]

\* Doc(docID).Update(ctx, {is_forwarded: true})
markForwarded(st, docID) ==
    [st EXCEPT ![docID] = [@ EXCEPT !.is_forwarded = TRUE]]

\* isFingerprintForwarded with the is_forwarded filter inverted
isFingerprintForwarded_Unforwarded(st, fingerprint) ==
    \E id \in DOMAIN st :
        /\ st[id].job_fingerprint = Ptr(fingerprint)
        /\ ~st[id].is_forwarded

\* Where("job_fingerprint", "==", fingerprint).Where("is_forwarded", "==", true).Limit(1)
isFingerprintForwarded(st, fingerprint) ==
    \E id \in DOMAIN st :
        /\ st[id].job_fingerprint = Ptr(fingerprint)
        /\ st[id].is_forwarded

\* the query without its is_processed filter
Unprocessed_NoFilter(st) == DOMAIN st

\* the documents that match Where("is_processed", "==", false)
Unprocessed(st) == {id \in DOMAIN st : ~st[id].is_processed}

\* a DocumentSnapshot: doc.Ref.ID and the fields processOne reads after DataTo
Snapshot(st, id) ==
    [id |-> id, message_text |-> st[id].message_text, channel_name |-> st[id].channel_name]

Min(a, b) == IF a <= b THEN a ELSE b

DigitChars == <<"0", "1", "2", "3", "4", "5", "6", "7", "8", "9">>

\* %d of a number that is not negative
RECURSIVE Decimal(_)
Decimal(n) ==
    IF n < 10 THEN <<DigitChars[n + 1]>>
    ELSE Decimal(n \div 10) \o <<DigitChars[(n % 10) + 1]>>

\* the document ID as the string fmt.Sprintf("%d_%d", ...) builds
docIDString(id) == Decimal(id[1]) \o <<"_">> \o Decimal(id[2])

\* the byte order of the characters of a document ID: '0'..'9' < '_'
ByteRank(c) == IF c = "_" THEN 10 ELSE CHOOSE d \in 0..9 : DigitChars[d + 1] = c

\* a < b in the byte-wise order of strings
LessString(a, b) ==
    \E k \in 1..(Len(a) + 1) :
        /\ \A j \in 1..(k - 1) : j <= Len(b) /\ a[j] = b[j]
        /\ k <= Len(b)
        /\ k > Len(a) \/ ByteRank(a[k]) < ByteRank(b[k])

\* the order of the results of a query without OrderBy: ascending document
\* ID; a document's place is the number of documents before it
InIDOrder(S) ==
    LET ranks == {<<a, Cardinality({b \in S : LessString(docIDString(b), docIDString(a))})>> :
                     a \in S}
    IN  CHOOSE ord \in {[k \in 1..Cardinality(S) |-> (CHOOSE p \in ranked : p[2] = k - 1)[1]] :
                           ranked \in {ranks}} : TRUE

\* the subsets of S with d elements
RECURSIVE SubsetsOfSize(_, _)
SubsetsOfSize(S, d) ==
    IF d = 0 THEN {{}}
    ELSE UNION {{T \cup {x} : x \in S \ T} : T \in SubsetsOfSize(S, d - 1)}

\* fetchUnprocessed without Limit(limit)
fetchUnprocessed_NoLimit(st, limit) ==
    { [i \in 1..Len(ord) |-> Snapshot(st, ord[i])] : ord \in {InIDOrder(Unprocessed(st))} }

\* the possible results of fetchUnprocessed: limit matching documents (all
\* of them when there are fewer; when there are more, all but any
\* Cardinality - limit of them), as snapshots, in ascending order of
\* document ID
fetchUnprocessed(st, limit) ==
    LET kepts == UNION { { LET Kept(a) == a \notin left IN SelectSeq(ord, Kept) :
                             left \in SubsetsOfSize(Unprocessed(st),
                                                     Len(ord) - Min(limit, Len(ord))) } :
                           ord \in {InIDOrder(Unprocessed(st))} }
    IN  { [i \in 1..Len(kept) |-> Snapshot(st, kept[i])] : kept \in kepts }

\* fmt.Sprintf("Job Post\n\nChannel: %s\n\n%s", msg.ChannelName, msg.MessageText)
formatMessage(doc) == <<"Job Post", doc.channel_name, doc.message_text>>

NoPost == [chat_id |-> 0, title |-> "", message_id |-> 0, text |-> << >>, date |-> 0]

\* no request has been answered
NoExchange == [request |-> [endpoint |-> "", method |-> ""], status |-> 0, body |-> ""]

\* no call has been made
NoCall == [fn |-> "", ret |-> << >>]

Init ==
    /\ store = << >>
    /\ pc = [w \in Workers |-> "idle"]
    /\ batch = [w \in Workers |-> << >>]
    /\ idx = [w \in Workers |-> 0]
    /\ sendOk = [w \in Workers |-> FALSE]
    /\ sent = [f \in Fingerprints |-> 0]
    /\ ingested = 0
    /\ lastStored = NoPost
    /\ clean = TRUE
    /\ http = NoExchange
    /\ input = << >>
    /\ result = NoCall

(***************************************************************************)
(* telegramWebhookHandler, for a POST whose update decodes to a message    *)
(* with text: one Set on the document, whose error is only logged.         *)
(***************************************************************************)
telegramWebhookHandler(msg, now, ok) ==
    LET docID == DocID(msg.chat_id, msg.message_id)
    IN  /\ ingested < MaxIngest
        /\ IF ok
           THEN /\ store' = storeMessage(store, docID, firestoreMsg(msg, now))
                /\ ingested' = ingested + 1
                /\ lastStored' = msg
                /\ clean' = (clean /\ \A w \in Workers : pc[w] = "idle")
           ELSE UNCHANGED <<store, ingested, lastStored, clean>>
        /\ UNCHANGED <<pc, batch, idx, sendOk, sent>>

(***************************************************************************)
(* workerHandler (POST) and processOne, one step per store or network call *)
(***************************************************************************)
\* the snapshot processOne is working on
Doc(w) == batch[w][idx[w]]

\* processOne returns: the loop of workerHandler takes the next snapshot, or
\* the handler responds and its locals are gone
NextDoc(w) ==
    IF idx[w] < Len(batch[w])
    THEN /\ idx' = [idx EXCEPT ![w] = @ + 1]
         /\ pc' = [pc EXCEPT ![w] = "update"]
         /\ UNCHANGED batch
    ELSE /\ idx' = [idx EXCEPT ![w] = 0]
         /\ pc' = [pc EXCEPT ![w] = "idle"]
         /\ batch' = [batch EXCEPT ![w] = << >>]

\* getFirestoreClient and fetchUnprocessed; an error ends the invocation
workerFetch(w, ok) ==
    /\ pc[w] = "idle"
    /\ IF ok
       THEN \E docs \in fetchUnprocessed(store, BatchLimit) :
                IF docs = << >>
                THEN UNCHANGED <<pc, batch, idx>>
                ELSE /\ batch' = [batch EXCEPT ![w] = docs]
                     /\ idx' = [idx EXCEPT ![w] = 1]
                     /\ pc' = [pc EXCEPT ![w] = "update"]
       ELSE UNCHANGED <<pc, batch, idx>>
    /\ UNCHANGED <<store, sendOk, sent, ingested, lastStored, clean>>

\* processOne up to the relevance test: it returns when doc.DataTo fails
\* (decoded is false); the error of updateProcessingResult is dropped
processUpdate(w, now, decoded, ok) ==
    LET doc         == Doc(w)
        fingerprint == fingerprintOf[doc.message_text]
        relevant    == relevantOf[doc.message_text]
    IN  /\ pc[w] = "update"
        /\ store' = IF decoded /\ ok /\ doc.id \in DOMAIN store
                    THEN updateProcessingResult(store, doc.id, relevant, fingerprint, now)
                    ELSE store
        /\ clean' = (clean /\ decoded /\ ok)
        /\ IF decoded /\ relevant
           THEN /\ pc' = [pc EXCEPT ![w] = "check"]
                /\ UNCHANGED <<batch, idx>>
           ELSE NextDoc(w)
        /\ UNCHANGED <<sendOk, sent, ingested, lastStored>>

\* processCheck that claims the fingerprint when the check passes, by setting
\* is_forwarded before the send
processCheck_Claims(w, ok) ==
    LET doc         == Doc(w)
        fingerprint == fingerprintOf[doc.message_text]
    IN  /\ pc[w] = "check"
        /\ clean' = (clean /\ ok)
        /\ IF ~ok \/ isFingerprintForwarded(store, fingerprint)
           THEN NextDoc(w) /\ UNCHANGED store
           ELSE /\ pc' = [pc EXCEPT ![w] = "send"]
                /\ store' = IF doc.id \in DOMAIN store
                            THEN markForwarded(store, doc.id) ELSE store
                /\ UNCHANGED <<batch, idx>>
        /\ UNCHANGED <<sendOk, sent, ingested, lastStored>>

\* processCheck that ends the whole invocation when the check fails
processCheck_Abort(w, ok) ==
    LET doc         == Doc(w)
        fingerprint == fingerprintOf[doc.message_text]
    IN  /\ pc[w] = "check"
        /\ clean' = (clean /\ ok)
        /\ IF ~ok
           THEN /\ idx' = [idx EXCEPT ![w] = 0]
                /\ pc' = [pc EXCEPT ![w] = "idle"]
                /\ batch' = [batch EXCEPT ![w] = << >>]
           ELSE IF isFingerprintForwarded(store, fingerprint)
           THEN NextDoc(w)
           ELSE /\ pc' = [pc EXCEPT ![w] = "send"]
                /\ UNCHANGED <<batch, idx>>
        /\ UNCHANGED <<store, sendOk, sent, ingested, lastStored>>

\* the deduplication check
processCheck(w, ok) ==
    LET doc         == Doc(w)
        fingerprint == fingerprintOf[doc.message_text]
    IN  /\ pc[w] = "check"
        /\ clean' = (clean /\ ok)
        /\ IF ~ok \/ isFingerprintForwarded(store, fingerprint)
           THEN NextDoc(w)
           ELSE /\ pc' = [pc EXCEPT ![w] = "send"]
                /\ UNCHANGED <<batch, idx>>
        /\ UNCHANGED <<store, sendOk, sent, ingested, lastStored>>

\* sendTextMessage(chatID, formatMessage(msg)); its error is dropped
processSend(w, ok) ==
    LET doc         == Doc(w)
        fingerprint == fingerprintOf[formatMessage(doc)[3]]
    IN  /\ pc[w] = "send"
        /\ sent[fingerprint] < MaxSends
        /\ sent' = IF ok THEN [sent EXCEPT ![fingerprint] = @ + 1] ELSE sent
        /\ sendOk' = [sendOk EXCEPT ![w] = ok]
        /\ clean' = (clean /\ ok)
        /\ pc' = [pc EXCEPT ![w] = "mark"]
        /\ UNCHANGED <<store, batch, idx, ingested, lastStored>>

\* markForwarded(ctx, client, doc.Ref.ID); its error is dropped
processMark(w, ok) ==
    LET doc == Doc(w)
    IN  /\ pc[w] = "mark"
        /\ store' = IF ok /\ doc.id \in DOMAIN store
                    THEN markForwarded(store, doc.id)
                    ELSE store
        /\ clean' = (clean /\ ok)
        /\ sendOk' = [sendOk EXCEPT ![w] = FALSE]
        /\ NextDoc(w)
        /\ UNCHANGED <<sent, ingested, lastStored>>

(***************************************************************************)
(* The store-level view: the webhook updates that reach the store and the  *)
(* worker invocations that fetch; responses and pure calls are not         *)
(* observed.                                                               *)
(***************************************************************************)
unobserved == <<http, input, result>>

Webhook ==
    \E msg \in Posts, now \in Times, ok \in BOOLEAN :
        telegramWebhookHandler(msg, now, ok) /\ UNCHANGED unobserved

Fetch == \E w \in Workers, ok \in BOOLEAN : workerFetch(w, ok) /\ UNCHANGED unobserved

Update ==
    \E w \in Workers, now \in Times, decoded \in BOOLEAN, ok \in BOOLEAN :
        processUpdate(w, now, decoded, ok) /\ UNCHANGED unobserved

Check == \E w \in Workers, ok \in BOOLEAN : processCheck(w, ok) /\ UNCHANGED unobserved

Send == \E w \in Workers, ok \in BOOLEAN : processSend(w, ok) /\ UNCHANGED unobserved

Mark == \E w \in Workers, ok \in BOOLEAN : processMark(w, ok) /\ UNCHANGED unobserved

Next == Webhook \/ Fetch \/ Update \/ Check \/ Send \/ Mark

\* any interleaving of webhook calls and worker invocations
Spec == Init /\ [][Next]_vars

\* worker invocations do not overlap one another
FetchSeq ==
    \E w \in Workers, ok \in BOOLEAN :
        /\ \A v \in Workers : pc[v] = "idle"
        /\ workerFetch(w, ok)
        /\ UNCHANGED unobserved

NextSeq == Webhook \/ FetchSeq \/ Update \/ Check \/ Send \/ Mark

SpecSeq == Init /\ [][NextSeq]_vars

(***************************************************************************)
(* The request-level view: every request to /webhook and /worker with the  *)
(* response its handler writes.  http holds the request answered by the    *)
(* last step and its response, NoExchange when the step answered none.     *)
(***************************************************************************)
\* a decoded TelegramMessageRaw: the fields of a post, Caption, len(Photo)
\* and Document
RawMessage(p, caption, photo, document) ==
    [ chat_id    |-> p.chat_id,
      title      |-> p.title,
      message_id |-> p.message_id,
      text       |-> p.text,
      date       |-> p.date,
      caption    |-> caption,
      photo      |-> photo,
      document   |-> document ]

\* the fields of a TelegramMessageRaw that the webhook copies
Post(raw) ==
    [ chat_id    |-> raw.chat_id,
      title      |-> raw.title,
      message_id |-> raw.message_id,
      text       |-> raw.text,
      date       |-> raw.date ]

\* a post of chat 1 without text
MediaPost == [chat_id |-> 1, title |-> ChatTitle(1), message_id |-> 7, text |-> << >>, date |-> 100]

\* the posts of the requests: two texts in chat 1 (a group), one in chat 2
\* (a channel)
GroupPosts == {p \in Posts : p.chat_id = 1 /\ p.text \in {<<"J", "o", "b">>, <<"i", "n", "t", "e", "r", "n">>}}

ChannelPosts == {p \in Posts : p.chat_id = 2 /\ p.text = <<"J", "o", "b">>}

\* text messages without caption or media; messages without text that have
\* nothing else, a caption, a photo or a document
GroupMessages ==
    {RawMessage(p, << >>, 0, Nil) : p \in GroupPosts}
        \cup {RawMessage(MediaPost, << >>, 0, Nil),
              RawMessage(MediaPost, <<"c">>, 0, Nil),
              RawMessage(MediaPost, << >>, 1, Nil),
              RawMessage(MediaPost, << >>, 0, Ptr("file"))}

ChannelMessages == {RawMessage(p, << >>, 0, Nil) : p \in ChannelPosts}

\* request bodies: one that json.Decode rejects, and TelegramUpdate values
\* with a message, a channel_post, neither, or both
TelegramUpdates ==
    {[decodes |-> FALSE, message |-> Nil, channel_post |-> Nil]}
        \cup {[decodes |-> TRUE, message |-> m, channel_post |-> Nil] :
                m \in {Nil} \cup {Ptr(r) : r \in GroupMessages}}
        \cup {[decodes |-> TRUE, message |-> Nil, channel_post |-> Ptr(r)] :
                r \in ChannelMessages}
        \cup {[decodes |-> TRUE, message |-> Ptr(r), channel_post |-> Ptr(c)] :
                r \in {q \in GroupMessages : q.caption = << >> /\ q.photo = 0 /\ q.document = Nil
                                               /\ q.text # <<"J", "o", "b">>},
                c \in ChannelMessages}

WebhookRequests ==
    {[endpoint |-> "/webhook", method |-> "GET",
      update |-> [decodes |-> FALSE, message |-> Nil, channel_post |-> Nil]]}
        \cup {[endpoint |-> "/webhook", method |-> "POST", update |-> u] : u \in TelegramUpdates}

WorkerMethods == {"GET", "POST", "PUT"}

WorkerRequest(method) == [endpoint |-> "/worker", method |-> method]

\* w.WriteHeader(status) and the body written
Respond(req, status, body) == http' = [request |-> req, status |-> status, body |-> body]

\* webhookRequest without the test on hasText and hasMedia
webhookRequest_NoContentCheck(req, now, ok) ==
    LET update == req.update
        msg    == IF update.message # Nil THEN update.message ELSE update.channel_post
    IN  /\ IF \/ req.method # "POST"
              \/ ~update.decodes
              \/ msg = Nil
           THEN UNCHANGED <<store, pc, batch, idx, sendOk, sent, ingested, lastStored, clean>>
           ELSE telegramWebhookHandler(Post(msg[1]), now, ok)
        /\ Respond(req, 200, "")
        /\ UNCHANGED <<input, result>>

\* telegramWebhookHandler: a request that is not a POST, does not decode,
\* carries no message or has neither text nor media is dropped; every
\* path writes 200
webhookRequest(req, now, ok) ==
    LET update   == req.update
        msg      == IF update.message # Nil THEN update.message ELSE update.channel_post
        hasMedia == msg[1].document # Nil \/ msg[1].photo > 0
        hasText  == msg[1].text # << >> \/ msg[1].caption # << >>
    IN  /\ IF \/ req.method # "POST"
              \/ ~update.decodes
              \/ msg = Nil
              \/ (~hasText /\ ~hasMedia)
           THEN UNCHANGED <<store, pc, batch, idx, sendOk, sent, ingested, lastStored, clean>>
           ELSE telegramWebhookHandler(Post(msg[1]), now, ok)
        /\ Respond(req, 200, "")
        /\ UNCHANGED <<input, result>>

\* workerRequest that answers an empty batch with 404
workerRequest_EmptyNotFound(w, method, clientOk, fetchOk) ==
    /\ pc[w] = "idle"
    /\ IF method = "GET"
       THEN /\ Respond(WorkerRequest(method), 200, "worker alive")
            /\ UNCHANGED <<store, pc, batch, idx, sendOk, sent, ingested, lastStored, clean>>
       ELSE IF method # "POST"
       THEN /\ Respond(WorkerRequest(method), 405, "method not allowed\n")
            /\ UNCHANGED <<store, pc, batch, idx, sendOk, sent, ingested, lastStored, clean>>
       ELSE IF ~clientOk
       THEN /\ Respond(WorkerRequest(method), 500, "firestore unavailable\n")
            /\ UNCHANGED <<store, pc, batch, idx, sendOk, sent, ingested, lastStored, clean>>
       ELSE /\ workerFetch(w, fetchOk)
            /\ IF ~fetchOk
               THEN Respond(WorkerRequest(method), 500, "failed to fetch\n")
               ELSE IF pc'[w] = "idle"
               THEN Respond(WorkerRequest(method), 404, "nothing to process\n")
               ELSE http' = NoExchange
    /\ UNCHANGED <<input, result>>

\* workerRequest that answers a failed fetch like an empty batch
workerRequest_FetchErrorSwallowed(w, method, clientOk, fetchOk) ==
    /\ pc[w] = "idle"
    /\ IF method = "GET"
       THEN /\ Respond(WorkerRequest(method), 200, "worker alive")
            /\ UNCHANGED <<store, pc, batch, idx, sendOk, sent, ingested, lastStored, clean>>
       ELSE IF method # "POST"
       THEN /\ Respond(WorkerRequest(method), 405, "method not allowed\n")
            /\ UNCHANGED <<store, pc, batch, idx, sendOk, sent, ingested, lastStored, clean>>
       ELSE IF ~clientOk
       THEN /\ Respond(WorkerRequest(method), 500, "firestore unavailable\n")
            /\ UNCHANGED <<store, pc, batch, idx, sendOk, sent, ingested, lastStored, clean>>
       ELSE /\ workerFetch(w, fetchOk)
            /\ IF ~fetchOk
               THEN Respond(WorkerRequest(method), 200, "processed")
               ELSE IF pc'[w] = "idle"
               THEN Respond(WorkerRequest(method), 200, "processed")
               ELSE http' = NoExchange
    /\ UNCHANGED <<input, result>>

\* workerHandler up to the loop over docs
workerRequest(w, method, clientOk, fetchOk) ==
    /\ pc[w] = "idle"
    /\ IF method = "GET"
       THEN /\ Respond(WorkerRequest(method), 200, "worker alive")
            /\ UNCHANGED <<store, pc, batch, idx, sendOk, sent, ingested, lastStored, clean>>
       ELSE IF method # "POST"
       THEN /\ Respond(WorkerRequest(method), 405, "method not allowed\n")
            /\ UNCHANGED <<store, pc, batch, idx, sendOk, sent, ingested, lastStored, clean>>
       ELSE IF ~clientOk
       THEN /\ Respond(WorkerRequest(method), 500, "firestore unavailable\n")
            /\ UNCHANGED <<store, pc, batch, idx, sendOk, sent, ingested, lastStored, clean>>
       ELSE /\ workerFetch(w, fetchOk)
            /\ IF ~fetchOk
               THEN Respond(WorkerRequest(method), 500, "failed to fetch\n")
               ELSE IF pc'[w] = "idle"
               THEN Respond(WorkerRequest(method), 200, "processed")
               ELSE http' = NoExchange
    /\ UNCHANGED <<input, result>>

\* workerHandler after the loop over docs: 200 and "processed"
PassResponse(w) ==
    /\ IF pc'[w] = "idle"
       THEN Respond(WorkerRequest("POST"), 200, "processed")
       ELSE http' = NoExchange
    /\ UNCHANGED <<input, result>>

WebhookHttp ==
    \E req \in WebhookRequests, now \in Times, ok \in BOOLEAN : webhookRequest(req, now, ok)

\* one worker invocation at a time
HttpWorker == "w1"

WorkerHttp ==
    \E method \in WorkerMethods, clientOk \in BOOLEAN, fetchOk \in BOOLEAN :
        workerRequest(HttpWorker, method, clientOk, fetchOk)

UpdateHttp ==
    \E now \in Times, decoded \in BOOLEAN, ok \in BOOLEAN :
        processUpdate(HttpWorker, now, decoded, ok) /\ PassResponse(HttpWorker)

CheckHttp == \E ok \in BOOLEAN : processCheck(HttpWorker, ok) /\ PassResponse(HttpWorker)

SendHttp == \E ok \in BOOLEAN : processSend(HttpWorker, ok) /\ PassResponse(HttpWorker)

MarkHttp == \E ok \in BOOLEAN : processMark(HttpWorker, ok) /\ PassResponse(HttpWorker)

NextHttp == WebhookHttp \/ WorkerHttp \/ UpdateHttp \/ CheckHttp \/ SendHttp \/ MarkHttp

SpecHttp == Init /\ [][NextHttp]_vars

(***************************************************************************)
(* A store with more unprocessed documents than one fetch returns: one     *)
(* post in chat 2 and BatchLimit posts in chat 1 whose                     *)
(* updateProcessingResult fails every time.  No webhook update arrives     *)
(* and worker invocations do not overlap.                                  *)
(***************************************************************************)
\* the post with message ID m of chat c
BacklogPost(c, m) ==
    [ chat_id    |-> c,
      title      |-> ChatTitle(c),
      message_id |-> m,
      text       |-> IF c = 1 THEN <<"i", "n", "t", "e", "r", "n">> ELSE <<"J", "o", "b">>,
      date       |-> 100 ]

BacklogPosts == {BacklogPost(1, m) : m \in 1..BatchLimit} \cup {BacklogPost(2, 1)}

\* the store after the webhook has stored every post of the backlog
InitBatch ==
    /\ store = [id \in {DocID(p.chat_id, p.message_id) : p \in BacklogPosts} |->
                   firestoreMsg(BacklogPost(id[1], id[2]), 1)]
    /\ pc = [w \in Workers |-> "idle"]
    /\ batch = [w \in Workers |-> << >>]
    /\ idx = [w \in Workers |-> 0]
    /\ sendOk = [w \in Workers |-> FALSE]
    /\ sent = [f \in Fingerprints |-> 0]
    /\ ingested = Cardinality(BacklogPosts)
    /\ lastStored = BacklogPost(2, 1)
    /\ clean = TRUE
    /\ http = NoExchange
    /\ input = << >>
    /\ result = NoCall

\* the documents whose updateProcessingResult returns an error every time
FailsAlways(id) == id[1] = 1

UpdateBatch ==
    \E w \in Workers, now \in Times :
        processUpdate(w, now, TRUE, ~FailsAlways(Doc(w).id)) /\ UNCHANGED unobserved

CheckBatch == \E w \in Workers : processCheck(w, TRUE) /\ UNCHANGED unobserved

SendBatch == \E w \in Workers : processSend(w, TRUE) /\ UNCHANGED unobserved

MarkBatch == \E w \in Workers : processMark(w, TRUE) /\ UNCHANGED unobserved

NextBatch == FetchSeq \/ UpdateBatch \/ CheckBatch \/ SendBatch \/ MarkBatch

SpecBatch == InitBatch /\ [][NextBatch]_vars

\* the worker endpoint is called again and again, and an invocation that has
\* started runs to its response
SpecBatchFair ==
    /\ SpecBatch
    /\ WF_vars(FetchSeq)
    /\ WF_vars(UpdateBatch)
    /\ WF_vars(CheckBatch)
    /\ WF_vars(SendBatch)
    /\ WF_vars(MarkBatch)

(***************************************************************************)
(* normalizeText and isRelevant on their own: one call on one text.  The   *)
(* texts are every entry of the four keyword lists and some texts that     *)
(* hold none of them, each as it is and in upper case, alone and after a   *)
(* few words.                                                              *)
(***************************************************************************)
ToUpperChar(c) ==
    IF IsLetter(c) /\ ~IsUpper(c) THEN UpperLetters[CHOOSE i \in 1..26 : LowerLetters[i] = c] ELSE c

ToUpper(s) == [i \in 1..Len(s) |-> ToUpperChar(s[i])]

\* the entries of a list
Entries(patterns) == {patterns[i] : i \in 1..Len(patterns)}

\* texts that hold no entry of the four lists
OtherTexts ==
    { <<"j", "o", "b">>,
      <<"2", "0", "2", "6", " ", "b", "a", "t", "c", "h">>,
      <<"2", "0", "2", "5", " ", "b", "a", "t", "c", "h">>,
      <<"2", "0", "2", "2", "-", "2", "0", "2", "5">>,
      <<"n", "o", " ", "y", "e", "a", "r">>,
      <<"1", ".", "2", "3", "4", "5", "6", "7", "8", "9">>,
      <<"c", "a", "l", "l", " ", "9", "8", "7", "6", "5", " ", "4", "3", "2", "1", "0">>,
      <<"s", "e", "e", " ", "h", "t", "t", "p", ":", "/", "/", "x", ".", "y", " ", "n", "o", "w">>,
      <<"m", "a", "i", "l", " ", "a", "@", "b", ".", "c", "o">> }

\* what a text is preceded by
Leads ==
    { <<>>,
      <<"H", "i", "r", "i", "n", "g", ":", " ">>,
      <<"2", "0", "2", "5", " ">> }

MessageTexts ==
    LET cores == Entries(internshipKeywords) \cup Entries(studentKeywords)
                     \cup Entries(experienceRejectPatterns)
                     \cup Entries(explicitNon2025Patterns) \cup OtherTexts
        lower == {lead \o core : lead \in Leads, core \in cores}
    IN  lower \cup {ToUpper(t) : t \in lower}

InitText ==
    /\ store = << >>
    /\ pc = [w \in Workers |-> "idle"]
    /\ batch = [w \in Workers |-> << >>]
    /\ idx = [w \in Workers |-> 0]
    /\ sendOk = [w \in Workers |-> FALSE]
    /\ sent = [f \in Fingerprints |-> 0]
    /\ ingested = 0
    /\ lastStored = NoPost
    /\ clean = TRUE
    /\ http = NoExchange
    /\ input \in MessageTexts
    /\ result = NoCall

unused == <<store, pc, batch, idx, sendOk, sent, ingested, lastStored, clean, http>>

CallIsRelevant ==
    /\ result' = [fn |-> "isRelevant", ret |-> isRelevant(input)]
    /\ UNCHANGED <<input, unused>>

CallNormalizeText ==
    /\ result' = [fn |-> "normalizeText", ret |-> normalizeText(input)]
    /\ UNCHANGED <<input, unused>>

NextText == CallIsRelevant \/ CallNormalizeText

SpecText == InitText /\ [][NextText]_vars

(***************************************************************************)
(* Properties.                                                             *)
(***************************************************************************)
\* worker w takes a step
Acts(w) == pc'[w] # pc[w] \/ idx'[w] # idx[w]

\* worker w takes the last step of its invocation
PassEnds(w) == pc[w] # "idle" /\ pc'[w] = "idle"

\* no document was overwritten by a later webhook update: every stored update
\* created its document
NoReingestion == ingested = Cardinality(DOMAIN store)

\* two different documents carry the same fingerprint and are both forwarded
ForwardedTwice(f) ==
    \E a, b \in DOMAIN store :
        /\ a # b
        /\ store[a].job_fingerprint = Ptr(f) /\ store[a].is_forwarded
        /\ store[b].job_fingerprint = Ptr(f) /\ store[b].is_forwarded

\* C1: for each fingerprint value at most one document of the store has
\* is_forwarded = true, when worker invocations do not overlap (SpecSeq)
C1_GlobalDedup == \A f \in Fingerprints : ~ForwardedTwice(f)

\* C2: at most one message is delivered to the personal chat per fingerprint,
\* when worker invocations do not overlap (SpecSeq); stated for the runs in
\* which no call fails and no webhook update lands during an invocation
C2_AtMostOneCopy == clean => \A f \in Fingerprints : sent[f] <= 1

\* C3: markForwarded takes effect only after a send that succeeded: the step
\* that follows a failed sendTextMessage leaves the store as it is
C3_MarkOnlyAfterSend ==
    [][\A w \in Workers :
          (pc[w] = "mark" /\ Acts(w) /\ ~sendOk[w]) => store' = store]_vars

\* C4: in every document is_relevant, processed_at and job_fingerprint are
\* all set when is_processed is true and all nil when it is false
C4_FieldsSetTogether ==
    \A id \in DOMAIN store :
        IF store[id].is_processed
        THEN /\ store[id].is_relevant # Nil
             /\ store[id].processed_at # Nil
             /\ store[id].job_fingerprint # Nil
        ELSE /\ store[id].is_relevant = Nil
             /\ store[id].processed_at = Nil
             /\ store[id].job_fingerprint = Nil

\* a processed and forwarded document next to an unprocessed one
C4_Witness ==
    \E a, b \in DOMAIN store :
        /\ store[a].is_processed /\ store[a].is_forwarded
        /\ ~store[b].is_processed

C6_CheckThenAct ==
    [][\A w \in Workers :
          Acts(w) =>
              /\ pc[w] = "check" => store' = store
              /\ pc[w] = "send" => (store' = store /\ pc'[w] = "mark")]_vars

\* with no failed call and no webhook update during an invocation, two
\* documents with the same fingerprint were both sent and are both forwarded
C6_Witness ==
    /\ clean
    /\ \E f \in Fingerprints : ForwardedTwice(f) /\ sent[f] = 2

\* C7: a stored webhook update leaves at its document ID exactly the fresh
\* record of that post, whatever was there before, and changes no other
\* document
C7_Upsert ==
    [][ingested' # ingested =>
          LET p  == lastStored'
              id == DocID(p.chat_id, p.message_id)
          IN  /\ DOMAIN store' = DOMAIN store \cup {id}
              /\ \A other \in DOMAIN store : other # id => store'[other] = store[other]
              /\ store'[id].channel_id = p.chat_id
              /\ store'[id].channel_name = p.title
              /\ store'[id].message_id = p.message_id
              /\ store'[id].message_text = p.text
              /\ store'[id].message_timestamp = TimeUnix(p.date)
              /\ store'[id].received_at \in Times
              /\ store'[id].is_processed = FALSE
              /\ store'[id].is_relevant = Nil
              /\ store'[id].processed_at = Nil
              /\ store'[id].job_fingerprint = Nil
              /\ store'[id].is_forwarded = FALSE]_vars

\* the only document was delivered once, then overwritten by an update with
\* another text, and is a fresh record again
C7_Witness ==
    \E id \in DOMAIN store :
        /\ DOMAIN store = {id}
        /\ ingested = 2
        /\ lastStored.text = store[id].message_text
        /\ \E f \in Fingerprints : f # fingerprintOf[lastStored.text] /\ sent[f] = 1
        /\ ~store[id].is_processed /\ ~store[id].is_forwarded
        /\ \A w \in Workers : pc[w] = "idle"

\* C8: a worker invocation without failed calls and without webhook updates
\* in between, over two relevant documents with the same fingerprint, ends
\* with both processed and exactly one of them forwarded; and in such runs
\* the other one is never forwarded too (SpecSeq)
C8_SequentialDedup ==
    /\ [][\A w \in Workers :
             (PassEnds(w) /\ clean') =>
                 \A i, j \in 1..Len(batch[w]) :
                     LET a == batch[w][i]
                         b == batch[w][j]
                         f == fingerprintOf[a.message_text]
                     IN  ( /\ i # j
                           /\ relevantOf[a.message_text]
                           /\ fingerprintOf[b.message_text] = f
                           /\ \A c \in DOMAIN store' \ {a.id, b.id} :
                                 ~(store'[c].job_fingerprint = Ptr(f) /\ store'[c].is_forwarded) )
                         => /\ store'[a.id].is_processed
                            /\ store'[b.id].is_processed
                            /\ store'[a.id].is_forwarded # store'[b.id].is_forwarded]_vars
    /\ [](clean => \A f \in Fingerprints : ~ForwardedTwice(f))

\* a clean invocation over two relevant documents with the same fingerprint
\* has forwarded the first and is at the existence check for the second
C8_Witness ==
    \E w \in Workers :
        /\ clean
        /\ Len(batch[w]) = 2 /\ idx[w] = 2 /\ pc[w] = "check"
        /\ batch[w][1].id # batch[w][2].id
        /\ relevantOf[batch[w][1].message_text]
        /\ fingerprintOf[batch[w][1].message_text] = fingerprintOf[batch[w][2].message_text]
        /\ store[batch[w][1].id].is_forwarded
        /\ store[batch[w][2].id].is_processed /\ ~store[batch[w][2].id].is_forwarded

\* C9: nothing is sent for a document whose updateProcessingResult failed:
\* when no document was overwritten, a worker that has sent the message of a
\* document finds it processed (SpecSeq)
C9_SkipOnUpdateFailure ==
    \A w \in Workers :
        (pc[w] = "mark" /\ sendOk[w] /\ NoReingestion)
            => store[Doc(w).id].is_processed

\* C10: no document has is_relevant = false together with is_forwarded = true
C10_IrrelevantNeverForwarded ==
    \A id \in DOMAIN store :
        ~(store[id].is_relevant = Ptr(FALSE) /\ store[id].is_forwarded)

\* the position of a step in processOne
StepRank(p) == CASE p = "update" -> 1 [] p = "check" -> 2 [] p = "send" -> 3 [] p = "mark" -> 4

\* the response of a worker invocation that has run its loop to the end
Processed == [request |-> WorkerRequest("POST"), status |-> 200, body |-> "processed"]

\* C11: whatever the outcome of a step of processOne (decode, update,
\* check, send, mark), the invocation goes on: to a later step on the same
\* snapshot, to the next snapshot of the batch, or, after the last snapshot
\* only, to the response 200 "processed" (SpecHttp)
C11_FailureIsolation ==
    [][\A w \in Workers :
          (pc[w] # "idle" /\ Acts(w)) =>
              \/ /\ idx'[w] = idx[w]
                 /\ batch'[w] = batch[w]
                 /\ pc'[w] # "idle"
                 /\ StepRank(pc'[w]) > StepRank(pc[w])
                 /\ http' = NoExchange
              \/ /\ idx[w] < Len(batch[w])
                 /\ idx'[w] = idx[w] + 1
                 /\ batch'[w] = batch[w]
                 /\ pc'[w] = "update"
                 /\ http' = NoExchange
              \/ /\ idx[w] = Len(batch[w])
                 /\ pc'[w] = "idle"
                 /\ http' = Processed]_vars

\* in a batch of two, the update of the first document failed (it is still
\* unprocessed and was not overwritten) and the second one has been
\* processed
C11_Witness ==
    \E w \in Workers :
        /\ NoReingestion
        /\ Len(batch[w]) = 2 /\ idx[w] = 2 /\ pc[w] = "check"
        /\ ~store[batch[w][1].id].is_processed
        /\ store[batch[w][2].id].is_processed

\* a message with text, a caption, a photo or a document
HasContent(m) == m.text # << >> \/ m.caption # << >> \/ m.photo > 0 \/ m.document # Nil

\* the requests C12 says are dropped: not a POST, a body that does not
\* decode, neither message nor channel_post, or no text, caption, photo or
\* document in what it carries
Uninteresting(req) ==
    \/ req.method # "POST"
    \/ ~req.update.decodes
    \/ req.update.message = Nil /\ req.update.channel_post = Nil
    \/ /\ req.update.message # Nil => ~HasContent(req.update.message[1])
       /\ req.update.channel_post # Nil => ~HasContent(req.update.channel_post[1])

\* C12: every request to /webhook is answered with 200, and one that is not
\* a POST, does not decode, or carries no message or no content changes
\* nothing (SpecHttp)
C12_AlwaysAcknowledges ==
    [][http'.request.endpoint = "/webhook" =>
          /\ http'.status = 200
          /\ Uninteresting(http'.request) =>
                 UNCHANGED <<store, pc, batch, idx, sendOk, sent, ingested, lastStored, clean>>]_vars

\* a POST with a message that has no text, caption or media was answered
\* with 200 while the store held a document
C12_Witness ==
    /\ http.request.endpoint = "/webhook"
    /\ http.request.method = "POST"
    /\ http.request.update.decodes
    /\ http.request.update.message # Nil
    /\ Uninteresting(http.request)
    /\ http.status = 200
    /\ DOMAIN store # {}

\* every document of the store is processed
AllProcessed == \A id \in DOMAIN store : store[id].is_processed

\* C13: when no document is unprocessed, a worker invocation starts no pass,
\* and a POST whose fetch succeeds is answered 200 "processed" without any
\* change of the store and without a send (SpecHttp)
C13_EmptyBatch ==
    [][(AllProcessed /\ \A w \in Workers : pc[w] = "idle") =>
          /\ \A w \in Workers : pc'[w] = "idle"
          /\ (http'.request = WorkerRequest("POST") /\ http'.status # 500) =>
                 /\ http' = Processed
                 /\ UNCHANGED <<store, pc, batch, idx, sendOk, sent, ingested, lastStored, clean>>]_vars

\* a POST to /worker was answered 200 "processed" on an empty store
C13_Witness ==
    /\ http = Processed
    /\ DOMAIN store = {}

\* C14: an invocation that is answered without running a pass changes
\* nothing and sends nothing; GET is answered 200 "worker alive", a method
\* other than GET and POST 405, and a POST 500 unless there was no
\* unprocessed document (SpecHttp)
C14_NoPassNoEffect ==
    [][((\A w \in Workers : pc[w] = "idle") /\ http'.request.endpoint = "/worker") =>
          /\ UNCHANGED <<store, pc, batch, idx, sendOk, sent, ingested, lastStored, clean>>
          /\ http'.request.method = "GET" =>
                 http'.status = 200 /\ http'.body = "worker alive"
          /\ http'.request.method \notin {"GET", "POST"} => http'.status = 405
          /\ http'.request.method = "POST" =>
                 http'.status = 500 \/ (http' = Processed /\ AllProcessed)]_vars

\* a POST to /worker was answered 500 while a document was unprocessed
C14_Witness ==
    /\ http.request = WorkerRequest("POST")
    /\ http.status = 500
    /\ ~AllProcessed

\* C15: a fetch returns at most BatchLimit snapshots, of different
\* documents that are unprocessed at the fetch, and changes nothing; every
\* step of the invocation keeps the set of documents and changes no
\* document but the one of the snapshot it is at (SpecBatch)
C15_BoundedPass ==
    [][\A w \in Workers :
          /\ (pc[w] = "idle" /\ pc'[w] = "update") =>
                 /\ Len(batch'[w]) <= BatchLimit
                 /\ \A i, j \in 1..Len(batch'[w]) :
                        i # j => batch'[w][i].id # batch'[w][j].id
                 /\ \A i \in 1..Len(batch'[w]) :
                        /\ batch'[w][i].id \in DOMAIN store
                        /\ ~store[batch'[w][i].id].is_processed
                 /\ store' = store
          /\ (pc[w] # "idle" /\ Acts(w)) =>
                 /\ DOMAIN store' = DOMAIN store
                 /\ \A id \in DOMAIN store : store'[id] # store[id] => id = Doc(w).id
                 /\ \E i \in 1..Len(batch[w]) : batch[w][i] = Doc(w)
                 /\ batch'[w] = batch[w] \/ pc'[w] = "idle"]_vars

\* an invocation over BatchLimit snapshots has processed one of them while
\* an unprocessed document is outside its batch
C15_Witness ==
    \E w \in Workers :
        /\ pc[w] # "idle"
        /\ Len(batch[w]) = BatchLimit
        /\ \E i \in 1..Len(batch[w]) : store[batch[w][i].id].is_processed
        /\ \E id \in DOMAIN store :
               /\ ~store[id].is_processed
               /\ \A i \in 1..Len(batch[w]) : batch[w][i].id # id

\* the entries of the four lists isRelevant looks for
RejectEntries ==
    Entries(internshipKeywords) \cup Entries(studentKeywords)
        \cup Entries(experienceRejectPatterns) \cup Entries(explicitNon2025Patterns)

Year2025 == <<"2", "0", "2", "5">>

\* C16: isRelevant returns false exactly when the lower-cased text contains
\* an entry of one of the four lists and true in every other case, and it
\* returns the same for the text with "2025 " put in front of it.
C16_RejectExactlyListed ==
    result.fn = "isRelevant" =>
        /\ result.ret = ~(\E p \in RejectEntries : Contains(ToLower(input), p))
        /\ result.ret = isRelevant(Year2025 \o <<" ">> \o input)

\* a text with a year pattern outside the list and without "2025" was
\* classified relevant
C16_Witness ==
    /\ result = [fn |-> "isRelevant", ret |-> TRUE]
    /\ Contains(input, <<"2", "0", "2", "6", " ", "b", "a", "t", "c", "h">>)
    /\ ~Contains(input, Year2025)

\* C17: normalizeText returns a text that normalizeText leaves as it is.
C17_NormalizeIdempotent ==
    result.fn = "normalizeText" => normalizeText(result.ret) = result.ret

\* C18: every document with is_forwarded = true has is_processed = true and
\* a job_fingerprint, in every state of every interleaving of webhook calls
\* and worker invocations.
C18_ForwardedImpliesProcessed ==
    \A id \in DOMAIN store :
        store[id].is_forwarded =>
            store[id].is_processed /\ store[id].job_fingerprint # Nil

\* C19: every document with is_processed = true holds the fingerprint and
\* the classification of the message_text it holds.
C19_ClassificationMatchesText ==
    \A id \in DOMAIN store :
        store[id].is_processed =>
            /\ store[id].job_fingerprint = Ptr(fingerprintOf[store[id].message_text])
            /\ store[id].is_relevant = Ptr(relevantOf[store[id].message_text])

\* C20: with the worker invoked again and again and no further webhook
\* update, every unprocessed document whose store operations succeed is
\* processed eventually, also when more documents are unprocessed than one
\* fetch returns and the others fail every time.
C20_EventuallyProcessed ==
    \A id \in {DocID(p.chat_id, p.message_id) : p \in BacklogPosts} :
        ~FailsAlways(id) => <>(store[id].is_processed)

====
